---- MODULE Spec2Model ----
(***************************************************************************)
(* Glossary Checker (app8a.py): the term matcher (count_terms, built on    *)
(* re.findall with a \b ... \b pattern), the KPI calculator                *)
(* (calculate_kpis, calculate_translation_coverage_rate) and the assembly  *)
(* of the result rows.                                                     *)
(*                                                                         *)
(* A string is a sequence of one-character strings.  A count mapping is a  *)
(* function from a set of terms to naturals; a key that is missing is read *)
(* with dict.get(key, 0).  A rate is an exact fraction <<num, den>> in     *)
(* lowest terms; the integer 0 of the "else 0" branch is <<0, 1>>.         *)
(*                                                                         *)
(* SpecMatch runs count_terms(text, [term]) step by step, then once more   *)
(* on the text with one more occurrence of the term appended.              *)
(* SpecKpi runs the row assembly and the KPI functions on a glossary and   *)
(* its count mappings, in the order of the "Process Files" handler.        *)
(***************************************************************************)
EXTENDS Integers, Sequences, FiniteSets

VARIABLES
  pc,                 \* position in the run
  text,               \* count_terms: the haystack
  term_in,            \* the glossary term before the call site
  term,               \* count_terms: the term of the loop iteration
  pos,                \* re.findall: offset the scan has reached (0-based)
  matches,            \* re.findall: start offsets of the matches found
  counter,            \* count_terms: the Counter being filled
  first_count,        \* counter[term] of the first call
  words, translations,
  source_counts, target_counts,
  benchmark_pdf, benchmark_counts,
  idx,                \* index of the zip iteration in the row loops
  combined_results, benchmark_results,
  kpis_source_target, coverage_rate, kpis_benchmark,
  kpis_swapped, kpis_mirrored,
  error               \* st.error of the handler's "except Exception"

matchVars == <<text, term_in, term, pos, matches, counter, first_count>>
kpiIn     == <<words, translations, source_counts, target_counts,
               benchmark_pdf, benchmark_counts>>
kpiOut    == <<idx, combined_results, benchmark_results, kpis_source_target,
               coverage_rate, kpis_benchmark, kpis_swapped, kpis_mirrored>>
vars      == <<pc, matchVars, kpiIn, kpiOut, error>>

----------------------------------------------------------------------------
(* Bounds *)

MaxTextLen == 4
MaxTermLen == 3
MaxEntries == 2
MaxCount   == 1

TextChars == {"a", "b", " ", "+"}
TermChars == {"a", "A", " ", "+"}
Words     == {"cat", "dog"}
Trans     == {"gato", "perro"}

StringsOver(chars, n) == UNION {[1..k -> chars] : k \in 0..n}
SeqsOver(S, n)        == UNION {[1..k -> S] : k \in 0..n}

\* a count mapping over all the keys, or over the first key only (the other
\* key is then read through the default of dict.get)
CountMappings(keys, first) ==
  [keys -> 0..MaxCount] \cup [{first} -> 0..MaxCount]

\* the benchmark mapping as count_terms fills it: every translation is a
\* key, absent (0) or present (1)
BenchmarkMappings == [Trans -> {0, 1}]

\* glossaries: the two columns, of equal length or one entry apart
Glossaries ==
  {g \in SeqsOver(Words, MaxEntries) \X SeqsOver(Trans, MaxEntries) :
     Len(g[1]) - Len(g[2]) \in {-1, 0, 1}}

----------------------------------------------------------------------------
(* Strings *)

IsWordChar(c)   == c \in {"a", "b", "A"}
IsWhitespace(c) == c = " "

LowerChar(c) == IF c = "A" THEN "a" ELSE c
lower(s)     == [j \in 1..Len(s) |-> LowerChar(s[j])]

RECURSIVE lstrip(_)
lstrip(s) == IF s # <<>> /\ IsWhitespace(Head(s)) THEN lstrip(Tail(s)) ELSE s

RECURSIVE rstrip(_)
rstrip(s) == IF s # <<>> /\ IsWhitespace(s[Len(s)])
             THEN rstrip(SubSeq(s, 1, Len(s) - 1)) ELSE s

strip(s) == rstrip(lstrip(s))

normalize_text(s) == strip(lower(s))

----------------------------------------------------------------------------
(* Regular expressions: a pattern is a sequence of elements, \b or a       *)
(* literal character.                                                      *)

WordBoundary == [kind |-> "b", ch |-> ""]
Literal(c)   == [kind |-> "lit", ch |-> c]

re_escape(s) == [j \in 1..Len(s) |-> Literal(s[j])]

pattern_of(t) == <<WordBoundary>> \o re_escape(lower(t)) \o <<WordBoundary>>

\* \b at offset p: exactly one of the characters around p is a word character
AtBoundary(s, p) ==
  LET before == p >= 1 /\ IsWordChar(s[p])
      after  == p < Len(s) /\ IsWordChar(s[p + 1])
  IN  before # after

\* the offset where a match of pattern[k..] starting at offset p ends, or -1
RECURSIVE MatchFrom(_, _, _, _)
MatchFrom(pattern, k, s, p) ==
  IF k > Len(pattern) THEN p
  ELSE IF pattern[k].kind = "b"
       THEN IF AtBoundary(s, p) THEN MatchFrom(pattern, k + 1, s, p) ELSE -1
       ELSE IF p < Len(s) /\ s[p + 1] = pattern[k].ch
            THEN MatchFrom(pattern, k + 1, s, p + 1) ELSE -1

MatchEnd(t, s, p) == MatchFrom(pattern_of(t), 1, s, p)

----------------------------------------------------------------------------
(* Count mappings and rates *)

Get(counts, key) == IF key \in DOMAIN counts THEN counts[key] ELSE 0

Min(a, b) == IF a < b THEN a ELSE b
Abs(n)    == IF n < 0 THEN -n ELSE n

RECURSIVE Gcd(_, _)
Gcd(a, b) == IF b = 0 THEN a ELSE Gcd(b, a % b)

Fraction(num, den) == LET g == Gcd(num, den) IN <<num \div g, den \div g>>

\* (num / den * 100) if den else 0
Rate(num, den) == IF den # 0 THEN Fraction(num * 100, den) ELSE <<0, 1>>

RECURSIVE Sum(_)
Sum(s) == IF s = <<>> THEN 0 ELSE Head(s) + Sum(Tail(s))

zip(ws, ts) == [j \in 1..Min(Len(ws), Len(ts)) |-> <<ws[j], ts[j]>>]

----------------------------------------------------------------------------
(* Values the variables of the other specification are parked at *)

NoCounts == [k \in {} |-> 0]
NoResult == [status |-> "none"]

MatchIdle ==
  /\ text = <<>> /\ term_in = <<>> /\ term = <<>>
  /\ pos = 0 /\ matches = <<>> /\ counter = NoCounts /\ first_count = 0

KpiIdle ==
  /\ words = <<>> /\ translations = <<>>
  /\ source_counts = NoCounts /\ target_counts = NoCounts
  /\ benchmark_pdf = FALSE /\ benchmark_counts = NoCounts
  /\ idx = 0 /\ combined_results = <<>> /\ benchmark_results = <<>>
  /\ kpis_source_target = NoResult /\ coverage_rate = <<0, 1>>
  /\ kpis_benchmark = NoResult
  /\ kpis_swapped = NoResult /\ kpis_mirrored = NoResult

----------------------------------------------------------------------------
(* The term matcher: count_terms(text, [term]) *)

InitMatch ==
  /\ pc = "call"
  /\ text \in {s \in StringsOver(TextChars, MaxTextLen) : normalize_text(s) = s}
  /\ term_in \in StringsOver(TermChars, MaxTermLen)
  /\ term = <<>> /\ pos = 0 /\ matches = <<>>
  /\ counter = NoCounts /\ first_count = 0
  /\ KpiIdle
  /\ error = FALSE

\* count_terms is handed the term as it is
CallCountTerms ==
  /\ pc = "call"
  /\ term' = term_in
  /\ pos' = 0 /\ matches' = <<>>
  /\ pc' = "scan"
  /\ UNCHANGED <<text, term_in, counter, first_count, kpiIn, kpiOut, error>>

\* the handler normalizes the glossary term, then counts it
CallWithNormalizedTerm ==
  /\ pc = "call"
  /\ term' = normalize_text(term_in)
  /\ pos' = 0 /\ matches' = <<>>
  /\ pc' = "scan"
  /\ UNCHANGED <<text, term_in, counter, first_count, kpiIn, kpiOut, error>>

\* re.findall finds a match at pos and resumes at its end; after an empty
\* match it resumes one character further
FindallMatch ==
  /\ pc \in {"scan", "rescan"}
  /\ pos <= Len(text)
  /\ MatchEnd(term, text, pos) # -1
  /\ matches' = Append(matches, pos)
  /\ pos' = IF MatchEnd(term, text, pos) = pos
            THEN pos + 1 ELSE MatchEnd(term, text, pos)
  /\ UNCHANGED <<pc, text, term_in, term, counter, first_count,
                 kpiIn, kpiOut, error>>

\* no match at pos: re.findall tries the next offset
FindallAdvance ==
  /\ pc \in {"scan", "rescan"}
  /\ pos <= Len(text)
  /\ MatchEnd(term, text, pos) = -1
  /\ pos' = pos + 1
  /\ UNCHANGED <<pc, text, term_in, term, matches, counter, first_count,
                 kpiIn, kpiOut, error>>

\* counter[term] = len(matches)
StoreCount ==
  /\ pc \in {"scan", "rescan"}
  /\ pos > Len(text)
  /\ counter' = [k \in DOMAIN counter \cup {term} |->
                   IF k = term THEN Len(matches) ELSE counter[k]]
  /\ pc' = IF pc = "scan" THEN "counted" ELSE "done"
  /\ UNCHANGED <<text, term_in, term, pos, matches, first_count,
                 kpiIn, kpiOut, error>>

\* the text with one more occurrence of the term, set off by a space
WithOccurrence(s, t) == IF s = <<>> THEN t ELSE s \o <<" ">> \o t

\* count_terms again, on the text with one more occurrence of the term
CountAgainWithOccurrence ==
  /\ pc = "counted"
  /\ first_count' = counter[term]
  /\ text' = WithOccurrence(text, term)
  /\ pos' = 0 /\ matches' = <<>>
  /\ pc' = "rescan"
  /\ UNCHANGED <<term_in, term, counter, kpiIn, kpiOut, error>>

NextMatch ==
  \/ CallCountTerms
  \/ CallWithNormalizedTerm
  \/ FindallMatch
  \/ FindallAdvance
  \/ StoreCount
  \/ CountAgainWithOccurrence

SpecMatch == InitMatch /\ [][NextMatch]_vars

----------------------------------------------------------------------------
(* Properties of the term matcher *)

\* offsets where t occurs literally in s with no word character right
\* before it and none right after it
WholeWordOccurrences(t, s) ==
  {p \in 0..(Len(s) - Len(t)) :
     /\ SubSeq(s, p + 1, p + Len(t)) = t
     /\ ~(p >= 1 /\ IsWordChar(s[p]))
     /\ ~(p + Len(t) < Len(s) /\ IsWordChar(s[p + Len(t) + 1]))}

\* C3: for a normalized haystack and a non-empty term, count_terms returns
\* the number of literal occurrences of the term that have no word
\* character right before and none right after
C3_WholeWordCount ==
  (pc = "counted" /\ term # <<>> /\ lower(term) = term)
    => counter[term] = Cardinality(WholeWordOccurrences(term, text))

\* C4: an empty term (also one that normalize_text reduced to the empty
\* string) is given the count 0 on every haystack
C4_EmptyTermCountsZero ==
  (pc = "counted" /\ term = <<>>) => counter[term] = 0

\* C9: appending one more occurrence of a non-empty term to the text raises
\* the term's count by exactly 1
C9_AppendAddsOne ==
  (pc = "done" /\ term # <<>> /\ lower(term) = term)
    => counter[term] = first_count + 1

----------------------------------------------------------------------------
(* The KPI calculator *)

\* a utilization count that looks at the target side only
utilized_terms_count_target_only(ws, ts, sc, tc) ==
  LET z == zip(ws, ts)
  IN  Sum([j \in 1..Len(z) |-> IF Get(tc, z[j][2]) > 0 THEN 1 ELSE 0])

\* sum(1 for w, t in zip(words, translations)
\*     if source_counts.get(w, 0) > 0 and target_counts.get(t, 0) > 0)
utilized_terms_count(ws, ts, sc, tc) ==
  LET z == zip(ws, ts)
  IN  Sum([j \in 1..Len(z) |->
             IF Get(sc, z[j][1]) > 0 /\ Get(tc, z[j][2]) > 0 THEN 1 ELSE 0])

\* a source total that counts each distinct word once
total_source_counts_distinct(ws, sc) ==
  LET firsts == SelectSeq([j \in 1..Len(ws) |-> <<j, ws[j]>>],
                          LAMBDA e : \A k \in 1..(e[1] - 1) : ws[k] # e[2])
  IN  Sum([j \in 1..Len(firsts) |-> Get(sc, firsts[j][2])])

\* sum(source_counts.get(w, 0) for w in words)
total_source_counts(ws, sc) == Sum([j \in 1..Len(ws) |-> Get(sc, ws[j])])

\* sum(target_counts.get(t, 0) for t in translations)
total_target_counts(ts, tc) == Sum([j \in 1..Len(ts) |-> Get(tc, ts[j])])

\* a discrepancy that keeps the sign
total_count_discrepancy_signed(src_total, tgt_total) == src_total - tgt_total

\* abs(total_source_counts - total_target_counts)
total_count_discrepancy(src_total, tgt_total) == Abs(src_total - tgt_total)

calculate_kpis(ws, ts, sc, tc) ==
  [utilization_rate        |-> Rate(utilized_terms_count(ws, ts, sc, tc), Len(ws)),
   total_count_discrepancy |-> total_count_discrepancy(total_source_counts(ws, sc),
                                                       total_target_counts(ts, tc)),
   total_source_counts     |-> total_source_counts(ws, sc),
   total_target_counts     |-> total_target_counts(ts, tc)]

\* a source-positive list that keeps every entry
source_positive_terms_unfiltered(ws, ts, sc) == zip(ws, ts)

\* [(w, t) for w, t in zip(words, translations) if source_counts.get(w, 0) > 0]
source_positive_terms(ws, ts, sc) ==
  LET SourcePositive(e) == Get(sc, e[1]) > 0
  IN  SelectSeq(zip(ws, ts), SourcePositive)

\* a translated count taken over every entry of the glossary
translated_positive_count_all(ws, ts, sc, tc) ==
  LET z == zip(ws, ts)
  IN  Sum([j \in 1..Len(z) |-> IF Get(tc, z[j][2]) > 0 THEN 1 ELSE 0])

\* sum(1 for w, t in source_positive_terms if target_counts.get(t, 0) > 0)
translated_positive_count(ws, ts, sc, tc) ==
  LET spt == source_positive_terms(ws, ts, sc)
  IN  Sum([j \in 1..Len(spt) |-> IF Get(tc, spt[j][2]) > 0 THEN 1 ELSE 0])

calculate_translation_coverage_rate(ws, ts, sc, tc) ==
  Rate(translated_positive_count(ws, ts, sc, tc),
       Len(source_positive_terms(ws, ts, sc)))

----------------------------------------------------------------------------
(* The result rows *)

\* a row filter that wants both counts positive
RowIncluded_both(w_count, t_count) == w_count > 0 /\ t_count > 0

\* if w_count > 0 or t_count > 0
RowIncluded(w_count, t_count) == w_count > 0 \/ t_count > 0

CombinedRow(w, w_count, t, t_count) ==
  [Word |-> w, CountInSource |-> w_count,
   Translation |-> t, CountInTarget |-> t_count]

BenchmarkRow(w, w_count, t, b_count) ==
  [Word |-> w, CountInSource |-> w_count,
   Translation |-> t, CountInBenchmark |-> b_count]

----------------------------------------------------------------------------
(* The handler from the row assembly on, given a glossary and its counts *)

InitKpi ==
  /\ pc = "rows"
  /\ \E g \in Glossaries : words = g[1] /\ translations = g[2]
  /\ source_counts \in CountMappings(Words, "cat")
  /\ target_counts \in CountMappings(Trans, "gato")
  /\ benchmark_pdf \in BOOLEAN
  /\ benchmark_counts \in
       IF benchmark_pdf THEN BenchmarkMappings ELSE {NoCounts}
  /\ idx = 1
  /\ combined_results = <<>> /\ benchmark_results = <<>>
  /\ kpis_source_target = NoResult /\ coverage_rate = <<0, 1>>
  /\ kpis_benchmark = NoResult
  /\ kpis_swapped = NoResult /\ kpis_mirrored = NoResult
  /\ MatchIdle
  /\ error = FALSE

kpiResults == <<kpis_source_target, coverage_rate, kpis_benchmark,
                kpis_swapped, kpis_mirrored>>

\* an iteration of the source/target loop that appends a row
CombinedAppend ==
  /\ pc = "rows"
  /\ idx <= Len(zip(words, translations))
  /\ LET w == zip(words, translations)[idx][1]
         t == zip(words, translations)[idx][2]
         w_count == Get(source_counts, w)
         t_count == Get(target_counts, t)
     IN  /\ RowIncluded(w_count, t_count)
         /\ combined_results' =
              Append(combined_results, CombinedRow(w, w_count, t, t_count))
  /\ idx' = idx + 1
  /\ UNCHANGED <<pc, matchVars, kpiIn, benchmark_results, kpiResults, error>>

\* an iteration of the source/target loop that appends nothing
CombinedSkip ==
  /\ pc = "rows"
  /\ idx <= Len(zip(words, translations))
  /\ LET w == zip(words, translations)[idx][1]
         t == zip(words, translations)[idx][2]
     IN  ~RowIncluded(Get(source_counts, w), Get(target_counts, t))
  /\ idx' = idx + 1
  /\ UNCHANGED <<pc, matchVars, kpiIn, combined_results, benchmark_results,
                 kpiResults, error>>

\* the source/target table is shown
CombinedShown ==
  /\ pc = "rows"
  /\ idx > Len(zip(words, translations))
  /\ idx' = 1
  /\ pc' = IF benchmark_pdf THEN "bench_rows" ELSE "kpis"
  /\ UNCHANGED <<matchVars, kpiIn, combined_results, benchmark_results,
                 kpiResults, error>>

\* an iteration of the source/benchmark loop that appends a row
BenchmarkAppend ==
  /\ pc = "bench_rows"
  /\ idx <= Len(zip(words, translations))
  /\ LET w == zip(words, translations)[idx][1]
         t == zip(words, translations)[idx][2]
         w_count == Get(source_counts, w)
         b_count == Get(benchmark_counts, t)
     IN  /\ RowIncluded(w_count, b_count)
         /\ benchmark_results' =
              Append(benchmark_results, BenchmarkRow(w, w_count, t, b_count))
  /\ idx' = idx + 1
  /\ UNCHANGED <<pc, matchVars, kpiIn, combined_results, kpiResults, error>>

\* an iteration of the source/benchmark loop that appends nothing
BenchmarkSkip ==
  /\ pc = "bench_rows"
  /\ idx <= Len(zip(words, translations))
  /\ LET w == zip(words, translations)[idx][1]
         t == zip(words, translations)[idx][2]
     IN  ~RowIncluded(Get(source_counts, w), Get(benchmark_counts, t))
  /\ idx' = idx + 1
  /\ UNCHANGED <<pc, matchVars, kpiIn, combined_results, benchmark_results,
                 kpiResults, error>>

\* the source/benchmark table is shown
BenchmarkShown ==
  /\ pc = "bench_rows"
  /\ idx > Len(zip(words, translations))
  /\ idx' = 1
  /\ pc' = "kpis"
  /\ UNCHANGED <<matchVars, kpiIn, combined_results, benchmark_results,
                 kpiResults, error>>

\* kpis_source_target = calculate_kpis(words, translations, source_counts, target_counts)
CalculateKpis ==
  /\ pc = "kpis"
  /\ kpis_source_target' =
       calculate_kpis(words, translations, source_counts, target_counts)
  /\ pc' = "coverage"
  /\ UNCHANGED <<matchVars, kpiIn, idx, combined_results, benchmark_results,
                 coverage_rate, kpis_benchmark, kpis_swapped, kpis_mirrored,
                 error>>

\* coverage_rate = calculate_translation_coverage_rate(...)
CalculateCoverage ==
  /\ pc = "coverage"
  /\ coverage_rate' =
       calculate_translation_coverage_rate(words, translations,
                                           source_counts, target_counts)
  /\ pc' = IF benchmark_pdf THEN "bench_kpis" ELSE "exchange"
  /\ UNCHANGED <<matchVars, kpiIn, idx, combined_results, benchmark_results,
                 kpis_source_target, kpis_benchmark, kpis_swapped,
                 kpis_mirrored, error>>

\* kpis_benchmark = calculate_kpis(words, translations, source_counts, benchmark_counts)
CalculateBenchmarkKpis ==
  /\ pc = "bench_kpis"
  /\ kpis_benchmark' =
       calculate_kpis(words, translations, source_counts, benchmark_counts)
  /\ pc' = "exchange"
  /\ UNCHANGED <<matchVars, kpiIn, idx, combined_results, benchmark_results,
                 kpis_source_target, coverage_rate, kpis_swapped,
                 kpis_mirrored, error>>

\* calculate_kpis with the two count mappings exchanged, and with the two
\* glossary columns exchanged as well
CalculateKpisExchanged ==
  /\ pc = "exchange"
  /\ kpis_swapped' =
       calculate_kpis(words, translations, target_counts, source_counts)
  /\ kpis_mirrored' =
       calculate_kpis(translations, words, target_counts, source_counts)
  /\ pc' = "done"
  /\ UNCHANGED <<matchVars, kpiIn, idx, combined_results, benchmark_results,
                 kpis_source_target, coverage_rate, kpis_benchmark, error>>

NextKpi ==
  \/ CombinedAppend
  \/ CombinedSkip
  \/ CombinedShown
  \/ BenchmarkAppend
  \/ BenchmarkSkip
  \/ BenchmarkShown
  \/ CalculateKpis
  \/ CalculateCoverage
  \/ CalculateBenchmarkKpis
  \/ CalculateKpisExchanged

SpecKpi == InitKpi /\ [][NextKpi]_vars

----------------------------------------------------------------------------
(* Properties of the KPI calculator and of the result rows *)

EqualLength  == Len(words) = Len(translations)
KpisReturned == pc \in {"coverage", "bench_kpis", "exchange", "done"}
CoverageReturned == pc \in {"bench_kpis", "exchange", "done"}
BenchmarkKpisReturned == benchmark_pdf /\ pc \in {"exchange", "done"}
CombinedBuilt  == pc \notin {"rows"}
BenchmarkBuilt == benchmark_pdf /\ pc \notin {"rows", "bench_rows"}

Entries == 1..Len(words)

SourcePositiveEntries ==
  {i \in Entries : Get(source_counts, words[i]) > 0}
TargetPositiveEntries ==
  {i \in Entries : Get(target_counts, translations[i]) > 0}

\* 100 * n / d as a percentage, 0 when d = 0
Percent(n, d) == IF d = 0 THEN <<0, 1>> ELSE Fraction(100 * n, d)

InPercentRange(r) == r[2] > 0 /\ 0 <= r[1] /\ r[1] <= 100 * r[2]

\* the glossary [(cat, gato), (dog, perro)] with source counts
\* {cat: 1, dog: 0} and target counts {gato: 1, perro: 1}
CatDogScenario ==
  /\ words = <<"cat", "dog">> /\ translations = <<"gato", "perro">>
  /\ source_counts = [k \in Words |-> IF k = "cat" THEN 1 ELSE 0]
  /\ target_counts = [k \in Trans |-> 1]

\* C1 as stated: utilization_rate is the percentage of entries whose
\* translation has a positive target count, whatever the source count
C1_UtilizationTargetOnly ==
  (KpisReturned /\ EqualLength)
    => kpis_source_target.utilization_rate
         = Percent(Cardinality(TargetPositiveEntries), Len(words))

\* C1 amended: utilization_rate is the percentage of entries whose word has
\* a positive source count and whose translation has a positive target count
C1_UtilizationSourceAndTarget ==
  (KpisReturned /\ EqualLength)
    => kpis_source_target.utilization_rate
         = Percent(Cardinality(SourcePositiveEntries \cap TargetPositiveEntries),
                   Len(words))

C1_Witness ==
  /\ pc = "done" /\ CatDogScenario
  /\ kpis_source_target.utilization_rate = <<50, 1>>

\* C2: the coverage rate is the percentage, among the entries with a
\* positive source count, of those with a positive target count, and 0
\* when no entry has a positive source count
C2_CoverageRate ==
  (CoverageReturned /\ EqualLength)
    => /\ coverage_rate
            = Percent(Cardinality(SourcePositiveEntries \cap TargetPositiveEntries),
                      Cardinality(SourcePositiveEntries))
       /\ SourcePositiveEntries = {} => coverage_rate = <<0, 1>>

C2_Witness ==
  /\ pc = "done" /\ CatDogScenario
  /\ coverage_rate = <<100, 1>>

\* C5: with words and translations of different lengths the KPI functions
\* and the row assembly end in an error and return nothing
C5_ShapeMismatchFailsFast ==
  (pc = "done" /\ ~EqualLength)
    => /\ error
       /\ kpis_source_target = NoResult
       /\ combined_results = <<>>

\* the sum, over the keys, of the key's count times the number of
\* positions of the sequence that hold the key
RECURSIVE WeightedTotal(_, _, _)
WeightedTotal(keys, s, counts) ==
  IF keys = {} THEN 0
  ELSE LET k == CHOOSE x \in keys : TRUE
       IN  Get(counts, k) * Cardinality({i \in 1..Len(s) : s[i] = k})
             + WeightedTotal(keys \ {k}, s, counts)

\* C6: total_source_counts adds source_counts[words[i]] over all positions
\* (a word held by k entries adds its count k times), total_target_counts
\* does the same for the translations, and total_count_discrepancy is the
\* absolute difference of the two totals
C6_Totals ==
  KpisReturned =>
    LET k == kpis_source_target
    IN  /\ k.total_source_counts = WeightedTotal(Words, words, source_counts)
        /\ k.total_target_counts = WeightedTotal(Trans, translations, target_counts)
        /\ k.total_count_discrepancy >= 0
        /\ \/ k.total_count_discrepancy = k.total_source_counts - k.total_target_counts
           \/ k.total_count_discrepancy = k.total_target_counts - k.total_source_counts

C6_Witness ==
  /\ pc = "done"
  /\ words = <<"cat", "cat">>
  /\ Get(source_counts, "cat") = 1
  /\ kpis_source_target.total_source_counts = 2
  /\ kpis_source_target.total_count_discrepancy > 0

\* the i-th smallest element of a set of entry indices
NthOf(I, n) == CHOOSE i \in I : Cardinality({k \in I : k < i}) = n - 1

\* rows holds, in entry order, exactly the entries of I, each as RowOf says
RowsAre(rows, I, RowOf(_)) ==
  /\ Len(rows) = Cardinality(I)
  /\ \A n \in 1..Len(rows) : rows[n] = RowOf(NthOf(I, n))

\* C7: a table holds a row for entry i exactly when one of its two counts
\* is positive, the row carries the entry's word, translation and counts,
\* and the rows are in entry order; for both tables
C7_Rows ==
  EqualLength =>
    /\ CombinedBuilt =>
         RowsAre(combined_results,
                 SourcePositiveEntries \cup TargetPositiveEntries,
                 LAMBDA i : [Word |-> words[i],
                             CountInSource |-> Get(source_counts, words[i]),
                             Translation |-> translations[i],
                             CountInTarget |-> Get(target_counts, translations[i])])
    /\ BenchmarkBuilt =>
         RowsAre(benchmark_results,
                 SourcePositiveEntries
                   \cup {i \in Entries : Get(benchmark_counts, translations[i]) > 0},
                 LAMBDA i : [Word |-> words[i],
                             CountInSource |-> Get(source_counts, words[i]),
                             Translation |-> translations[i],
                             CountInBenchmark |-> Get(benchmark_counts, translations[i])])

C7_Witness ==
  /\ pc = "done" /\ benchmark_pdf
  /\ words = <<"cat", "dog">> /\ translations = <<"gato", "perro">>
  /\ Len(combined_results) = 1 /\ combined_results[1].Word = "dog"
  /\ combined_results[1].CountInSource = 0
  /\ Len(benchmark_results) = 1 /\ benchmark_results[1].Word = "cat"

\* C8: the utilization rate and the coverage rate lie in [0, 100], and a
\* rate whose denominator is zero is exactly 0
C8_RatesInRange ==
  /\ KpisReturned =>
       /\ InPercentRange(kpis_source_target.utilization_rate)
       /\ Len(words) = 0 => kpis_source_target.utilization_rate = <<0, 1>>
  /\ BenchmarkKpisReturned =>
       /\ InPercentRange(kpis_benchmark.utilization_rate)
       /\ Len(words) = 0 => kpis_benchmark.utilization_rate = <<0, 1>>
  /\ CoverageReturned =>
       /\ InPercentRange(coverage_rate)
       /\ (\A j \in 1..Len(zip(words, translations)) :
             Get(source_counts, words[j]) = 0) => coverage_rate = <<0, 1>>

C8_Witness ==
  /\ pc = "done"
  /\ Len(words) = 2 /\ EqualLength
  /\ SourcePositiveEntries = {}
  /\ Cardinality(TargetPositiveEntries) = 2
  /\ coverage_rate = <<0, 1>>
  /\ kpis_source_target.utilization_rate = <<0, 1>>

\* C10 as stated: exchanging the two count mappings, with the glossary
\* left as it is, leaves total_count_discrepancy unchanged
C10_SwapMappingsOnly ==
  pc = "done" =>
    kpis_source_target.total_count_discrepancy
      = kpis_swapped.total_count_discrepancy

\* C10 amended: exchanging the two count mappings together with the two
\* glossary columns leaves total_count_discrepancy unchanged
C10_SwapMappingsAndColumns ==
  pc = "done" =>
    kpis_source_target.total_count_discrepancy
      = kpis_mirrored.total_count_discrepancy

C10_Witness ==
  /\ pc = "done"
  /\ kpis_source_target.total_source_counts
       < kpis_source_target.total_target_counts
  /\ kpis_mirrored.total_source_counts > kpis_mirrored.total_target_counts
  /\ kpis_source_target.total_count_discrepancy > 0

====
